---- MODULE Spec2Model ----
(***************************************************************************)
(* Rules-resolution engine of the homebrew character sheet: the curves,    *)
(* the overcast bonus and the three damage pipelines documented in         *)
(* src/StatCalculations.md and src/unnamed/part_000.                       *)
(*                                                                         *)
(* Numbers are exact: a rational is a record [n, d] in lowest terms with   *)
(* d > 0, and the logarithmic terms are decided with exact big-natural     *)
(* arithmetic, never with rounded values.                                  *)
(***************************************************************************)
EXTENDS Integers, Sequences, FiniteSets, TLC

\* The rules engine called as a pure function: one call, one result.
VARIABLES pc, op, args, result

\* A character's resource pools: each pool is [current, max], with the
\* cumulative points spent on it, and the last operation applied.
VARIABLES hp, mana, hpPoints, manaPoints, lastOp

\* The launcher SheetTool.pyw: its position, the two standard streams, what
\* the dialogs returned, the application object, the calls made so far and
\* the exit status of the process.
VARIABLES lpc, stdout, stderr, is_dm, path, app, calls, exitStatus

\* BuildExe.pyw: the Build button, the status line, the log widget, the
\* build() threads and the PyInstaller processes they started, the two exe
\* files, and the number of builds started.
VARIABLES btn, status, log, builds, procs, rootExe, distExe, started

calcVars == <<pc, op, args, result>>

poolVars == <<hp, mana, hpPoints, manaPoints, lastOp>>

launcherVars == <<lpc, stdout, stderr, is_dm, path, app, calls, exitStatus>>

buildVars == <<btn, status, log, builds, procs, rootExe, distExe, started>>

vars == <<calcVars, poolVars, launcherVars, buildVars>>

\* What a step of one program leaves alone: the state of the others.
outsideCalc == <<poolVars, launcherVars, buildVars>>

outsidePool == <<calcVars, launcherVars, buildVars>>

outsideLauncher == <<calcVars, poolVars, buildVars>>

outsideBuild == <<calcVars, poolVars, launcherVars>>

\* Each program runs on its own: the state of the others stays put.
CalcIdle == pc = "idle" /\ op = "none" /\ args = <<>> /\ result = <<>>

PoolIdle ==
    /\ hp = <<>> /\ mana = <<>> /\ hpPoints = 0 /\ manaPoints = 0
    /\ lastOp = <<>>

LauncherIdle ==
    /\ lpc = "idle" /\ stdout = "none" /\ stderr = "none" /\ is_dm = FALSE
    /\ path = <<>> /\ app = <<>> /\ calls = <<>> /\ exitStatus = 0 - 1

BuildIdle ==
    /\ btn = "none" /\ status = <<>> /\ log = <<>> /\ builds = <<>>
    /\ procs = <<>> /\ rootExe = <<>> /\ distExe = <<>> /\ started = 0

(***************************************************************************)
(* Exact arithmetic.                                                       *)
(***************************************************************************)
max(a, b) == IF a >= b THEN a ELSE b

min(a, b) == IF a <= b THEN a ELSE b

Abs(a) == IF a < 0 THEN 0 - a ELSE a

RECURSIVE GCD(_, _)
GCD(a, b) == IF b = 0 THEN a ELSE GCD(b, a % b)

\* The rational n/d (d # 0) in lowest terms with a positive denominator.
Rat(n, d) ==
    LET s == IF d < 0 THEN 0 - 1 ELSE 1
        g == GCD(Abs(n), Abs(d))
    IN  [n |-> (s * n) \div g, d |-> (s * d) \div g]

RatInt(k) == [n |-> k, d |-> 1]

RatAdd(x, y) == Rat(x.n * y.d + y.n * x.d, x.d * y.d)

RatSub(x, y) == Rat(x.n * y.d - y.n * x.d, x.d * y.d)

RatMul(x, y) ==
    LET a == Rat(x.n, y.d)
        b == Rat(y.n, x.d)
    IN  Rat(a.n * b.n, a.d * b.d)

RatDiv(x, y) == RatMul(x, Rat(y.d, y.n))

RatLeq(x, y) == x.n * y.d <= y.n * x.d

RatLt(x, y) == x.n * y.d < y.n * x.d

floor(x) == x.n \div x.d

ceil(x) == 0 - ((0 - x.n) \div x.d)

(***************************************************************************)
(* Piecewise-linear interpolation over a sorted anchor list <<x, y>>, the  *)
(* values clamped to the first and the last anchor outside the list.       *)
(***************************************************************************)
InterpolateBetween(lo, hi, x) ==
    RatAdd(RatInt(lo[2]),
           RatMul(RatSub(x, RatInt(lo[1])), Rat(hi[2] - lo[2], hi[1] - lo[1])))

Interpolate(anchors, x) ==
    LET last == anchors[Len(anchors)]
    IN  IF RatLeq(x, RatInt(anchors[1][1])) THEN RatInt(anchors[1][2])
        ELSE IF RatLeq(RatInt(last[1]), x) THEN RatInt(last[2])
        ELSE LET i == CHOOSE k \in 1..(Len(anchors) - 1) :
                          /\ RatLeq(RatInt(anchors[k][1]), x)
                          /\ RatLt(x, RatInt(anchors[k + 1][1]))
             IN  InterpolateBetween(anchors[i], anchors[i + 1], x)

(***************************************************************************)
(* Glancing blow: accuracy/evasion ratio -> share of the damage that lands.*)
(* Anchors in hundredths: ratio 0.90 -> 0%, ... , 1.10 -> 100%.            *)
(***************************************************************************)
GlancingAnchors == << <<90, 0>>, <<95, 25>>, <<100, 50>>, <<105, 75>>, <<110, 100>> >>

\* Mutant: a defender without evasion is missed instead of hit in full.
glancing_multiplier_NoEvasionMiss(effectiveAccuracy, evasion) ==
    IF evasion <= 0 THEN RatInt(0)
    ELSE LET ratio == RatDiv(effectiveAccuracy, RatInt(evasion))
         IN  RatDiv(Interpolate(GlancingAnchors, RatMul(ratio, RatInt(100))),
                    RatInt(100))

\* effectiveAccuracy is a rational, evasion an integer.
glancing_multiplier(effectiveAccuracy, evasion) ==
    IF evasion <= 0 THEN RatInt(1)
    ELSE LET ratio == RatDiv(effectiveAccuracy, RatInt(evasion))
         IN  RatDiv(Interpolate(GlancingAnchors, RatMul(ratio, RatInt(100))),
                    RatInt(100))

(***************************************************************************)
(* Physical Defense: flat damage reduction.                                *)
(***************************************************************************)
DR(physicalDefense) == physicalDefense \div 5

\* Mutant: DR taken off the incoming damage before the glancing reduction.
resolveIncomingHit_DRFirst(incomingDamage, attackerAccuracy, evasion, physicalDefense, isPhysical) ==
    LET mult    == glancing_multiplier(attackerAccuracy, evasion)
        reduced == IF isPhysical
                   THEN max(0, incomingDamage - DR(physicalDefense))
                   ELSE incomingDamage
    IN  [err         |-> "none",
         hit         |-> mult.n # 0,
         glanced     |-> floor(RatMul(RatInt(incomingDamage), mult)),
         finalDamage |-> floor(RatMul(RatInt(reduced), mult))]

\* Incoming Damage -> glancing blow -> subtract DR (physical only) -> HP.
resolveIncomingHit(incomingDamage, attackerAccuracy, evasion, physicalDefense, isPhysical) ==
    LET mult    == glancing_multiplier(attackerAccuracy, evasion)
        glanced == floor(RatMul(RatInt(incomingDamage), mult))
    IN  [err         |-> "none",
         hit         |-> mult.n # 0,
         glanced     |-> glanced,
         finalDamage |-> IF isPhysical
                         THEN max(0, glanced - DR(physicalDefense))
                         ELSE glanced]

(***************************************************************************)
(* d20 roll multiplier: piecewise linear through the anchors 1, 2, 10, 19  *)
(* and 20 (values in hundredths); the table's rows for 5 and 15 lie on the *)
(* lines between them ("~1.56x, interpolated between 10 and 19").          *)
(***************************************************************************)
\* Mutant: the table's seven rows all taken as anchors, 15 -> 1.56 exactly.
RollAnchors_SevenRows ==
    << <<1, 5>>, <<2, 20>>, <<5, 50>>, <<10, 100>>, <<15, 156>>, <<19, 200>>,
       <<20, 500>> >>

RollAnchors == << <<1, 5>>, <<2, 20>>, <<10, 100>>, <<19, 200>>, <<20, 500>> >>

roll_multiplier(roll) == RatDiv(Interpolate(RollAnchors, RatInt(roll)), RatInt(100))

\* A roll outside 1..20 is rejected, not clamped.
RollMultiplierCurve(roll) ==
    IF roll < 1 \/ roll > 20
    THEN [err |-> "RangeError", mult |-> RatInt(0)]
    ELSE [err |-> "none", mult |-> roll_multiplier(roll)]

\* Effective Accuracy = Accuracy Stat * Roll Multiplier(d20)
EffectiveAccuracy(accuracyStat, rollMult) == RatMul(RatInt(accuracyStat), rollMult)

(***************************************************************************)
(* Big naturals: little-endian sequences of base-1000 limbs, <<>> for 0.   *)
(* They decide the comparisons that involve logarithms exactly.  Every     *)
(* recursion halves its range, so powers of several hundred digits stay    *)
(* within a shallow evaluation depth.                                      *)
(***************************************************************************)
\* The limbs of a machine integer v >= 0.
Limbs(v) ==
    IF v = 0 THEN << >>
    ELSE IF v < 1000 THEN <<v>>
    ELSE IF v < 1000000 THEN <<v % 1000, v \div 1000>>
    ELSE IF v < 1000000000 THEN <<v % 1000, (v \div 1000) % 1000, v \div 1000000>>
    ELSE <<v % 1000, (v \div 1000) % 1000, (v \div 1000000) % 1000, v \div 1000000000>>

\* Carry propagation over column sums: Len(cols) limbs and the carry out.
RECURSIVE BigCarry(_)
BigCarry(cols) ==
    IF Len(cols) = 1
    THEN [limbs |-> <<cols[1] % 1000>>, carry |-> cols[1] \div 1000]
    ELSE LET h     == Len(cols) \div 2
             lo    == BigCarry(SubSeq(cols, 1, h))
             hi    == BigCarry(<<cols[h + 1] + lo.carry>> \o SubSeq(cols, h + 2, Len(cols)))
         IN  [limbs |-> lo.limbs \o hi.limbs, carry |-> hi.carry]

RECURSIVE BigStrip(_)
BigStrip(b) ==
    IF b = << >> \/ b[Len(b)] # 0 THEN b ELSE BigStrip(SubSeq(b, 1, Len(b) - 1))

BigNorm(cols) ==
    IF cols = << >> THEN << >>
    ELSE LET c == BigCarry(cols) IN BigStrip(c.limbs \o Limbs(c.carry))

\* Sum of a[i] * b[k + 1 - i] for i in lo..hi.
RECURSIVE BigColumn(_, _, _, _, _)
BigColumn(a, b, k, lo, hi) ==
    IF lo > hi THEN 0
    ELSE IF lo = hi THEN a[lo] * b[k + 1 - lo]
    ELSE LET mid == (lo + hi) \div 2
         IN  BigColumn(a, b, k, lo, mid) + BigColumn(a, b, k, mid + 1, hi)

BigTimes(a, b) ==
    IF a = << >> \/ b = << >> THEN << >>
    ELSE BigNorm([k \in 1..(Len(a) + Len(b) - 1) |->
                     BigColumn(a, b, k, max(1, k + 1 - Len(b)), min(Len(a), k))])

\* k^e for machine integers k >= 0, e >= 0, by repeated squaring.
RECURSIVE BigPow(_, _)
BigPow(k, e) ==
    IF e = 0 THEN <<1>>
    ELSE LET h  == BigPow(k, e \div 2)
             sq == BigTimes(h, h)
         IN  IF e % 2 = 1 THEN BigTimes(sq, Limbs(k)) ELSE sq

\* b * k^e.
BigMulPow(b, k, e) == BigTimes(b, BigPow(k, e))

RECURSIVE BigCmpRange(_, _, _, _)
BigCmpRange(a, b, lo, hi) ==
    IF lo > hi THEN 0
    ELSE IF lo = hi
    THEN IF a[lo] < b[lo] THEN 0 - 1 ELSE IF a[lo] > b[lo] THEN 1 ELSE 0
    ELSE LET mid == (lo + hi) \div 2
             top == BigCmpRange(a, b, mid + 1, hi)
         IN  IF top # 0 THEN top ELSE BigCmpRange(a, b, lo, mid)

\* -1, 0 or 1 as a < b, a = b or a > b.
BigCmp(a, b) ==
    IF Len(a) < Len(b) THEN 0 - 1
    ELSE IF Len(a) > Len(b) THEN 1
    ELSE BigCmpRange(a, b, 1, Len(a))

\* Number of decimal digits of b > 0.
BigDigits(b) ==
    LET top == b[Len(b)]
    IN  3 * (Len(b) - 1)
        + (IF top >= 100 THEN 3 ELSE IF top >= 10 THEN 2 ELSE 1)

IsPow10(p) == p \in {1, 10, 100, 1000, 10000, 100000}

Log10Exact(p) == CHOOSE j \in 0..5 : BigPow(10, j) = Limbs(p)

\* floor(e * log10(p)) for an integer e of either sign and p >= 1.
FloorLogPow(p, e) ==
    IF IsPow10(p) THEN e * Log10Exact(p)
    ELSE IF e >= 0 THEN BigDigits(BigPow(p, e)) - 1
    ELSE 0 - BigDigits(BigPow(p, 0 - e))

(***************************************************************************)
(* Scaling curve shared by Mana Density, PBD and Precision.  The value of  *)
(* [base, logArg] is base + log(logArg / 100) / log(100).                  *)
(***************************************************************************)
\* Negative points are clamped to zero before use.
clamp_points(points) == max(points, 0)

\* Mutant: the logarithmic tail restarts from 1.0 instead of 2.0.
scaling_multiplier_TailFromOne(points) ==
    IF points <= 100
    THEN [base |-> Rat(100 + points, 100), logArg |-> 100]
    ELSE [base |-> RatInt(1), logArg |-> points]

\* 0-100 points: 1.0 + points/100; above 100: 2.0 + log(points/100)/log(100).
scaling_multiplier(points) ==
    IF points <= 100
    THEN [base |-> Rat(100 + points, 100), logArg |-> 100]
    ELSE [base |-> RatInt(2), logArg |-> points]

ScalingCurve(points) == scaling_multiplier(clamp_points(points))

\* floor(x * m) for a rational x and a scaling multiplier m:
\* x * m = x.n * (2*base.n - 2*base.d + base.d * log10(logArg)) / (2 * x.d * base.d).
ScaledFloor(x, m) ==
    (x.n * (2 * m.base.n - 2 * m.base.d) + FloorLogPow(m.logArg, x.n * m.base.d))
        \div (2 * x.d * m.base.d)

\* -1, 0 or 1 as the value of m is below, equal to or above the rational q:
\* log100(logArg/100) against r = q - base, i.e. logArg^r.d against 100^(r.n + r.d).
MultCmpRat(m, q) ==
    LET r == RatSub(q, m.base)
    IN  IF r.n + r.d < 0 THEN 1
        ELSE BigCmp(BigPow(m.logArg, r.d), BigPow(100, r.n + r.d))

\* value of m1 <= value of m2: (logArg1/logArg2)^r.d <= 100^r.n, r = base2 - base1.
MultLeq(m1, m2) ==
    LET r == RatSub(m2.base, m1.base)
    IN  IF m1.logArg = m2.logArg THEN r.n >= 0
        ELSE IF r.n >= 0
        THEN BigCmp(BigPow(m1.logArg, r.d),
                    BigMulPow(BigPow(m2.logArg, r.d), 100, r.n)) <= 0
        ELSE BigCmp(BigMulPow(BigPow(m1.logArg, r.d), 100, 0 - r.n),
                    BigPow(m2.logArg, r.d)) <= 0

(***************************************************************************)
(* Overcast: bonus damage for mana spent above the base cost.  A config is *)
(* [enabled, scale, power, cap] with power a rational.                     *)
(***************************************************************************)
RECURSIVE IntPow(_, _)
IntPow(k, e) == IF e = 0 THEN 1 ELSE k * IntPow(k, e - 1)

\* x = log2(spentEff / baseCostEff), for the ratios that are powers of two.
log2_ratio(spentEff, baseCostEff) ==
    CHOOSE x \in 0..12 : spentEff = baseCostEff * IntPow(2, x)

\* floor(scale * x^power) for integers scale >= 0, x >= 1 and power = n/d > 0:
\* the largest m with m^d <= scale^d * x^n.
floor_scale_pow(scale, x, power) ==
    LET target == BigTimes(BigPow(scale, power.d), BigPow(x, power.n))
        top    == scale * IntPow(x, ceil(power))
    IN  CHOOSE m \in 0..top :
            /\ BigCmp(BigPow(m, power.d), target) <= 0
            /\ BigCmp(BigPow(m + 1, power.d), target) > 0

\* Invalid overcast configuration: non-positive power, or a non-positive base
\* cost feeding the logarithm.
overcast_config_error(baseCostEff, config) ==
    config.power.n <= 0 \/ baseCostEff <= 0

\* Mutant: the configuration is validated before the early return of 0.
compute_overcast_bonus_ValidateFirst(baseCostEff, spentEff, config) ==
    IF overcast_config_error(baseCostEff, config)
    THEN [err |-> "ConfigError", bonus |-> 0]
    ELSE IF ~config.enabled \/ spentEff <= baseCostEff
    THEN [err |-> "none", bonus |-> 0]
    ELSE LET x == log2_ratio(spentEff, baseCostEff)
         IN  [err   |-> "none",
              bonus |-> min(floor_scale_pow(config.scale, x, config.power), config.cap)]

\* Mutant: the cap is not applied.
compute_overcast_bonus_NoCap(baseCostEff, spentEff, config) ==
    IF ~config.enabled \/ spentEff <= baseCostEff
    THEN [err |-> "none", bonus |-> 0]
    ELSE IF overcast_config_error(baseCostEff, config)
    THEN [err |-> "ConfigError", bonus |-> 0]
    ELSE LET x == log2_ratio(spentEff, baseCostEff)
         IN  [err   |-> "none",
              bonus |-> floor_scale_pow(config.scale, x, config.power)]

\* If spending <= base cost, or overcast is disabled: bonus = 0.  Otherwise
\* ratio = spent / base, x = log2(ratio), bonus = min(floor(scale * x^power), cap).
compute_overcast_bonus(baseCostEff, spentEff, config) ==
    IF ~config.enabled \/ spentEff <= baseCostEff
    THEN [err |-> "none", bonus |-> 0]
    ELSE IF overcast_config_error(baseCostEff, config)
    THEN [err |-> "ConfigError", bonus |-> 0]
    ELSE LET x == log2_ratio(spentEff, baseCostEff)
         IN  [err   |-> "none",
              bonus |-> min(floor_scale_pow(config.scale, x, config.power), config.cap)]

(***************************************************************************)
(* Damage pipelines.  An optional input is [given, v].                     *)
(***************************************************************************)
Omitted == [given |-> FALSE, v |-> 0]

Given(x) == [given |-> TRUE, v |-> x]

\* Mutant: the pass also runs, against evasion 0 or roll 10, on one input alone.
glancing_pass_EitherInput(damage, accuracyStat, roll, evasion) ==
    IF ~(roll.given \/ evasion.given)
    THEN [err |-> "none", hit |-> TRUE, finalDamage |-> damage]
    ELSE LET rm == RollMultiplierCurve(IF roll.given THEN roll.v ELSE 10)
         IN  IF rm.err # "none"
             THEN [err |-> rm.err, hit |-> FALSE, finalDamage |-> 0]
             ELSE LET g == glancing_multiplier(
                               EffectiveAccuracy(accuracyStat, rm.mult),
                               IF evasion.given THEN evasion.v ELSE 200)
                  IN  [err         |-> "none",
                       hit         |-> g.n # 0,
                       finalDamage |-> floor(RatMul(RatInt(damage), g))]

\* Runs only when the d20 roll and the enemy evasion are both entered:
\* Final Damage = floor(Raw Damage * Glancing Multiplier).
glancing_pass(damage, accuracyStat, roll, evasion) ==
    IF ~(roll.given /\ evasion.given)
    THEN [err |-> "none", hit |-> TRUE, finalDamage |-> damage]
    ELSE LET rm == RollMultiplierCurve(roll.v)
         IN  IF rm.err # "none"
             THEN [err |-> rm.err, hit |-> FALSE, finalDamage |-> 0]
             ELSE LET g == glancing_multiplier(
                               EffectiveAccuracy(accuracyStat, rm.mult), evasion.v)
                  IN  [err         |-> "none",
                       hit         |-> g.n # 0,
                       finalDamage |-> floor(RatMul(RatInt(damage), g))]

\* Mutant: ranged and melee scaling stats swapped.
weapon_damage_StatsSwapped(item, stats, diceRoll) ==
    LET base == diceRoll + item.flatBonus
    IN  IF item.applyBonus
        THEN ScaledFloor(RatInt(base),
                         ScalingCurve(IF item.isRanged THEN stats.PBD
                                                       ELSE stats.Precision))
        ELSE base

\* Base Damage = Dice Roll + Flat Bonus; Total = floor(Base * multiplier) with
\* the PBD multiplier (melee) or the Precision multiplier (ranged) when the
\* item applies its bonus.
weapon_damage(item, stats, diceRoll) ==
    LET base == diceRoll + item.flatBonus
    IN  IF item.applyBonus
        THEN ScaledFloor(RatInt(base),
                         ScalingCurve(IF item.isRanged THEN stats.Precision
                                                       ELSE stats.PBD))
        ELSE base

resolveWeaponAttack(item, stats, diceRoll, roll, evasion) ==
    LET damage   == weapon_damage(item, stats, diceRoll)
        accuracy == IF item.isRanged THEN stats.RangedAccuracy
                                     ELSE stats.MeleeAccuracy
        pass     == glancing_pass(damage, accuracy, roll, evasion)
    IN  [err         |-> pass.err,
         hit         |-> pass.hit,
         rawDamage   |-> diceRoll + item.flatBonus,
         damage      |-> damage,
         finalDamage |-> pass.finalDamage,
         manaDeducted |-> 0]

\* Slot table: damage multiplier and mana cost multiplier.
SlotDamageMult(slot) ==
    CASE slot = "Core" -> Rat(3, 2) [] slot = "Inner" -> RatInt(1)
      [] slot = "Outer" -> Rat(3, 4)

SlotManaMult(slot) ==
    CASE slot = "Core" -> Rat(3, 4) [] slot = "Inner" -> RatInt(1)
      [] slot = "Outer" -> RatInt(2)

\* Mutant: the slot multiplier is applied to the dice only, not to the overcast bonus.
ability_damage_BonusUnscaled(ability, stats, diceRoll, overcastBonus) ==
    ScaledFloor(RatAdd(RatMul(RatInt(diceRoll + ability.flatBonus),
                              SlotDamageMult(ability.slot)),
                       RatInt(overcastBonus)),
                ScalingCurve(stats.ManaDensity))

\* Total Damage = floor((Base Damage + Overcast Bonus) * Damage Multiplier
\*                      * Mana Density Mult)
ability_damage(ability, stats, diceRoll, overcastBonus) ==
    ScaledFloor(RatMul(RatInt(diceRoll + ability.flatBonus + overcastBonus),
                       SlotDamageMult(ability.slot)),
                ScalingCurve(stats.ManaDensity))

resolveAbilityCast(ability, stats, diceRoll, manaSpent, roll, evasion) ==
    LET baseCostEff == ceil(RatMul(RatInt(ability.manaCost), SlotManaMult(ability.slot)))
        spentEff    == ceil(RatMul(RatInt(manaSpent), SlotManaMult(ability.slot)))
        overcast    == compute_overcast_bonus(baseCostEff, spentEff, ability.overcast)
    IN  IF overcast.err # "none"
        THEN [err |-> overcast.err, hit |-> FALSE, rawDamage |-> 0, damage |-> 0,
              finalDamage |-> 0, manaDeducted |-> 0, baseCostEff |-> baseCostEff,
              spentEff |-> spentEff]
        ELSE LET damage == ability_damage(ability, stats, diceRoll, overcast.bonus)
                 pass   == glancing_pass(damage, stats.Spellcraft, roll, evasion)
             IN  [err          |-> pass.err,
                  hit          |-> pass.hit,
                  rawDamage    |-> diceRoll + ability.flatBonus,
                  damage       |-> damage,
                  finalDamage  |-> pass.finalDamage,
                  \* Mana Deducted = Spent (eff); the caster's pool is not consulted.
                  manaDeducted |-> spentEff,
                  baseCostEff  |-> baseCostEff,
                  spentEff     |-> spentEff]

(***************************************************************************)
(* Inputs.                                                                 *)
(***************************************************************************)
MaxIncoming == 6

MaxPhysDef == 14

MaxEvasion == 20

MaxAccuracy == 24

NegSlack == 2

RollSlack == 2

MaxPoints == 104

MaxBaseCost == 3

MaxDoublings == 4

GlancingInputs ==
    [accuracy : ((0 - NegSlack)..MaxAccuracy) \cup {85, 90, 93, 95, 97, 100, 105, 108, 110, 115},
     evasion  : ((0 - NegSlack)..MaxEvasion) \cup {100}]

IncomingInputs ==
    [incomingDamage  : (0..MaxIncoming) \cup {20, 40},
     accuracy        : {85, 93, 95, 100, 105, 110},
     evasion         : {0, 100},
     physicalDefense : 0..MaxPhysDef,
     isPhysical      : BOOLEAN]

RollInputs ==
    [roll : (1 - RollSlack)..(20 + RollSlack), accuracyStat : {0, 40, 95}]

ScalePoints ==
    ((0 - NegSlack)..MaxPoints) \cup {250, 999, 1000, 1001, 9999, 10000, 10001}

ScalingInputs == [points : ScalePoints]

Powers == {Rat(17, 20), Rat(1, 2), RatInt(1), RatInt(2), RatInt(0), Rat(0 - 1, 2)}

OvercastConfigs ==
    [enabled : BOOLEAN, scale : {0, 5}, power : Powers, cap : {0, 3, 999}]

\* The inputs whose bonus is decided exactly: the ratio is a power of two
\* wherever a logarithm is taken.
OvercastComputable(baseCostEff, spentEff, config) ==
    \/ ~config.enabled
    \/ spentEff <= baseCostEff
    \/ overcast_config_error(baseCostEff, config)
    \/ \E x \in 0..12 : spentEff = baseCostEff * IntPow(2, x)

OvercastInputs ==
    {a \in [baseCostEff : (0 - 1)..MaxBaseCost,
            spentEff    : (0 - 1)..(MaxBaseCost * IntPow(2, MaxDoublings)),
            config      : OvercastConfigs] :
        /\ OvercastComputable(a.baseCostEff, a.spentEff, a.config)
        /\ a.baseCostEff <= 0 => a.spentEff <= 2}

Items == [flatBonus : {0 - 3, 0, 2}, applyBonus : BOOLEAN, isRanged : BOOLEAN]

WeaponStats ==
    [PBD : {0 - 5, 0, 50, 250}, Precision : {0, 25, 1000},
     MeleeAccuracy : {40, 95, 110}, RangedAccuracy : {100}]

OptRolls == {Omitted, Given(10), Given(15), Given(21)}

OptEvasions == {Omitted, Given(0), Given(100)}

WeaponInputs ==
    [item : Items, stats : WeaponStats, diceRoll : {1, 10, 40},
     roll : OptRolls, evasion : OptEvasions]

AbilityOvercasts ==
    {[enabled |-> FALSE, scale |-> 0, power |-> Rat(17, 20), cap |-> 999],
     [enabled |-> TRUE, scale |-> 5, power |-> Rat(17, 20), cap |-> 999],
     [enabled |-> TRUE, scale |-> 5, power |-> Rat(17, 20), cap |-> 3],
     [enabled |-> TRUE, scale |-> 5, power |-> RatInt(0), cap |-> 999]}

Abilities ==
    [slot : {"Core", "Inner", "Outer"}, flatBonus : {0, 3}, manaCost : {0, 3, 10},
     overcast : AbilityOvercasts]

AbilityStats ==
    [ManaDensity : {0, 50, 250}, Spellcraft : {95, 110}, currentMana : {0, 50}]

AbilityInputs ==
    {a \in [ability : Abilities, stats : AbilityStats, diceRoll : {1, 12},
            manaSpent : {0, 3, 10, 20, 21},
            roll : {Omitted, Given(10)}, evasion : {Omitted, Given(100)}] :
        OvercastComputable(
            ceil(RatMul(RatInt(a.ability.manaCost), SlotManaMult(a.ability.slot))),
            ceil(RatMul(RatInt(a.manaSpent), SlotManaMult(a.ability.slot))),
            a.ability.overcast)}

(***************************************************************************)
(* DiceExpression: damage written as NdS+F.  A text is a sequence of       *)
(* one-character strings, and numbers are read and written digit by digit. *)
(***************************************************************************)
DigitChars == <<"0", "1", "2", "3", "4", "5", "6", "7", "8", "9">>

IsDigit(c) == \E k \in 1..10 : DigitChars[k] = c

DigitValue(c) == (CHOOSE k \in 1..10 : DigitChars[k] = c) - 1

IsSpace(c) == c = " "

\* The text without its leading and trailing whitespace.
RECURSIVE Trim(_)
Trim(t) ==
    IF t = <<>> THEN t
    ELSE IF IsSpace(Head(t)) THEN Trim(Tail(t))
    ELSE IF IsSpace(t[Len(t)]) THEN Trim(SubSeq(t, 1, Len(t) - 1))
    ELSE t

\* The number of digits t carries from position i on.
RECURSIVE DigitRun(_, _)
DigitRun(t, i) ==
    IF i <= Len(t) /\ IsDigit(t[i]) THEN 1 + DigitRun(t, i + 1) ELSE 0

\* The number written by the digits ds, leading zeros allowed.
RECURSIVE DigitsToInt(_)
DigitsToInt(ds) ==
    IF ds = <<>> THEN 0
    ELSE 10 * DigitsToInt(SubSeq(ds, 1, Len(ds) - 1)) + DigitValue(ds[Len(ds)])

\* The decimal digits of n >= 0.
RECURSIVE IntToDigits(_)
IntToDigits(n) ==
    IF n < 10 THEN <<DigitChars[n + 1]>>
    ELSE Append(IntToDigits(n \div 10), DigitChars[(n % 10) + 1])

ParseError == [err |-> "ParseError", count |-> 0, sides |-> 0, flatBonus |-> 0]

\* Mutant: the text is matched as given, without trimming.
parse_NoTrim(text) ==
    LET t  == text
        n1 == DigitRun(t, 1)
        n2 == DigitRun(t, n1 + 2)
        e2 == n1 + 1 + n2
        n3 == DigitRun(t, e2 + 2)
    IN  IF n1 = 0 \/ Len(t) < n1 + 1 \/ t[n1 + 1] # "d" \/ n2 = 0
        THEN ParseError
        ELSE LET count == DigitsToInt(SubSeq(t, 1, n1))
                 sides == DigitsToInt(SubSeq(t, n1 + 2, e2))
             IN  IF count <= 0 \/ sides <= 0 THEN ParseError
                 ELSE IF Len(t) = e2
                 THEN [err |-> "none", count |-> count, sides |-> sides,
                       flatBonus |-> 0]
                 ELSE IF t[e2 + 1] \in {"+", "-"} /\ n3 > 0 /\ Len(t) = e2 + 1 + n3
                 THEN LET f == DigitsToInt(SubSeq(t, e2 + 2, e2 + 1 + n3))
                      IN  [err |-> "none", count |-> count, sides |-> sides,
                           flatBonus |-> IF t[e2 + 1] = "-" THEN 0 - f ELSE f]
                 ELSE ParseError

\* parse: the trimmed text must read \d+d\d+([+-]\d+)? from end to end, with
\* a positive count and positive sides.
parse(text) ==
    LET t  == Trim(text)
        n1 == DigitRun(t, 1)
        n2 == DigitRun(t, n1 + 2)
        e2 == n1 + 1 + n2
        n3 == DigitRun(t, e2 + 2)
    IN  IF n1 = 0 \/ Len(t) < n1 + 1 \/ t[n1 + 1] # "d" \/ n2 = 0
        THEN ParseError
        ELSE LET count == DigitsToInt(SubSeq(t, 1, n1))
                 sides == DigitsToInt(SubSeq(t, n1 + 2, e2))
             IN  IF count <= 0 \/ sides <= 0 THEN ParseError
                 ELSE IF Len(t) = e2
                 THEN [err |-> "none", count |-> count, sides |-> sides,
                       flatBonus |-> 0]
                 ELSE IF t[e2 + 1] \in {"+", "-"} /\ n3 > 0 /\ Len(t) = e2 + 1 + n3
                 THEN LET f == DigitsToInt(SubSeq(t, e2 + 2, e2 + 1 + n3))
                      IN  [err |-> "none", count |-> count, sides |-> sides,
                           flatBonus |-> IF t[e2 + 1] = "-" THEN 0 - f ELSE f]
                 ELSE ParseError

\* Mutant: the bonus is always written after a "+", its own sign kept.
format_PlusAlways(expr) ==
    IntToDigits(expr.count) \o <<"d">> \o IntToDigits(expr.sides)
        \o <<"+">>
        \o (IF expr.flatBonus < 0
            THEN <<"-">> \o IntToDigits(0 - expr.flatBonus)
            ELSE IntToDigits(expr.flatBonus))

\* format: NdS, NdS+F or NdS-F.
format(expr) ==
    IntToDigits(expr.count) \o <<"d">> \o IntToDigits(expr.sides)
        \o (IF expr.flatBonus > 0
            THEN <<"+">> \o IntToDigits(expr.flatBonus)
            ELSE IF expr.flatBonus < 0
            THEN <<"-">> \o IntToDigits(0 - expr.flatBonus)
            ELSE <<>>)

MaxTextLen == 4

MaxCount == 12

MaxSides == 12

MaxFlatBonus == 12

ParseAlphabet == {"0", "1", "2", "d", "+", "-", " "}

RECURSIVE TextsOfLen(_)
TextsOfLen(n) ==
    IF n = 0 THEN {<<>>}
    ELSE {Append(t, c) : t \in TextsOfLen(n - 1), c \in ParseAlphabet}

ExampleTexts ==
    {<<"1", "d", "1", "0">>,
     <<"2", "d", "6", "+", "3">>,
     <<"3", "d", "8", "-", "2">>,
     <<" ", "1", "d", "1", "0", " ">>,
     <<" ", " ", "2", "d", "6", "+", "3">>,
     <<"3", "d", "8", "-", "2", " ", " ">>,
     <<"2", "d", "6", " ", "+", "3">>,
     <<"2", "d", "6", "+", "-", "3">>,
     <<"2", "x", "6", "+", "3">>,
     <<"0", "d", "6", "+", "3">>,
     <<"2", "d", "0", "0", "-", "1">>,
     <<"0", "2", "d", "0", "6", "+", "0", "3">>,
     <<"1", "2", "d", "2", "0", "+", "1", "5">>,
     <<"2", "d", "1", "-", "1">>,
     <<" ", " ", " ">>}

ParseInputs ==
    [text : UNION {TextsOfLen(n) : n \in 0..MaxTextLen} \cup ExampleTexts]

FormatInputs ==
    [expr : [count : 1..MaxCount, sides : (2..MaxSides) \cup {20, 100},
             flatBonus : (0 - MaxFlatBonus)..MaxFlatBonus]]

Ops == {"glancing", "incoming", "roll", "scaling", "overcast", "weapon", "ability",
        "parse", "format"}

Inputs(o) ==
    CASE o = "glancing" -> GlancingInputs
      [] o = "incoming" -> IncomingInputs
      [] o = "roll"     -> RollInputs
      [] o = "scaling"  -> ScalingInputs
      [] o = "overcast" -> OvercastInputs
      [] o = "weapon"   -> WeaponInputs
      [] o = "ability"  -> AbilityInputs
      [] o = "parse"    -> ParseInputs
      [] o = "format"   -> FormatInputs

NoResult == [err |-> "pending"]

Init ==
    /\ pc = "call"
    /\ op \in Ops
    /\ args \in Inputs(op)
    /\ result = NoResult
    /\ PoolIdle
    /\ LauncherIdle
    /\ BuildIdle

GlancingBlow ==
    /\ pc = "call" /\ op = "glancing"
    /\ result' = [err  |-> "none",
                  mult |-> glancing_multiplier(RatInt(args.accuracy), args.evasion)]
    /\ pc' = "done"
    /\ UNCHANGED <<op, args, outsideCalc>>

IncomingHit ==
    /\ pc = "call" /\ op = "incoming"
    /\ result' = resolveIncomingHit(args.incomingDamage, RatInt(args.accuracy),
                                    args.evasion, args.physicalDefense,
                                    args.isPhysical)
    /\ pc' = "done"
    /\ UNCHANGED <<op, args, outsideCalc>>

RollMultiplier ==
    /\ pc = "call" /\ op = "roll"
    /\ LET rm == RollMultiplierCurve(args.roll)
       IN  result' = [err  |-> rm.err,
                      mult |-> rm.mult,
                      effectiveAccuracy |-> EffectiveAccuracy(args.accuracyStat, rm.mult)]
    /\ pc' = "done"
    /\ UNCHANGED <<op, args, outsideCalc>>

Scaling ==
    /\ pc = "call" /\ op = "scaling"
    /\ result' = [err |-> "none", mult |-> ScalingCurve(args.points)]
    /\ pc' = "done"
    /\ UNCHANGED <<op, args, outsideCalc>>

Overcast ==
    /\ pc = "call" /\ op = "overcast"
    /\ result' = compute_overcast_bonus(args.baseCostEff, args.spentEff, args.config)
    /\ pc' = "done"
    /\ UNCHANGED <<op, args, outsideCalc>>

WeaponAttack ==
    /\ pc = "call" /\ op = "weapon"
    /\ result' = resolveWeaponAttack(args.item, args.stats, args.diceRoll,
                                     args.roll, args.evasion)
    /\ pc' = "done"
    /\ UNCHANGED <<op, args, outsideCalc>>

AbilityCast ==
    /\ pc = "call" /\ op = "ability"
    /\ result' = resolveAbilityCast(args.ability, args.stats, args.diceRoll,
                                    args.manaSpent, args.roll, args.evasion)
    /\ pc' = "done"
    /\ UNCHANGED <<op, args, outsideCalc>>

ParseDice ==
    /\ pc = "call" /\ op = "parse"
    /\ result' = parse(args.text)
    /\ pc' = "done"
    /\ UNCHANGED <<op, args, outsideCalc>>

FormatDice ==
    /\ pc = "call" /\ op = "format"
    /\ result' = [err |-> "none", text |-> format(args.expr)]
    /\ pc' = "done"
    /\ UNCHANGED <<op, args, outsideCalc>>

Next ==
    \/ GlancingBlow
    \/ IncomingHit
    \/ RollMultiplier
    \/ Scaling
    \/ Overcast
    \/ WeaponAttack
    \/ AbilityCast
    \/ ParseDice
    \/ FormatDice

Spec == Init /\ [][Next]_vars

(***************************************************************************)
(* C1  resolveIncomingHit: the result is                                   *)
(*     max(0, floor(incomingDamage * glancing) - floor(physicalDefense/5)) *)
(*     for physical damage and floor(incomingDamage * glancing), with no   *)
(*     DR, otherwise; DR comes off after the glancing reduction, the       *)
(*     result is never negative, and DR is 0 for defense 0..4, 1 for 5..9, *)
(*     2 for 10..14.                                                       *)
(***************************************************************************)
C1_IncomingHit ==
    (pc = "done" /\ op = "incoming") =>
        LET g       == glancing_multiplier(RatInt(args.accuracy), args.evasion)
            glanced == (args.incomingDamage * g.n) \div g.d
            pd      == args.physicalDefense
            dr      == CHOOSE k \in 0..pd : 5 * k <= pd /\ pd < 5 * k + 5
        IN  /\ result.err = "none"
            /\ result.finalDamage >= 0
            /\ args.isPhysical => result.finalDamage = max(0, glanced - dr)
            /\ ~args.isPhysical => result.finalDamage = glanced
            /\ (args.isPhysical /\ pd \in 0..4) => result.finalDamage = glanced
            /\ (args.isPhysical /\ pd \in 5..9) =>
                   result.finalDamage = max(0, glanced - 1)
            /\ (args.isPhysical /\ pd \in 10..14) =>
                   result.finalDamage = max(0, glanced - 2)

\* 40 physical damage at ratio 0.95 against Physical Defense 10: floor(40 * 0.25) - 2
\* = 8 (DR taken first would leave floor(38 * 0.25) = 9).
C1_Witness ==
    /\ pc = "done" /\ op = "incoming"
    /\ args.isPhysical /\ args.incomingDamage = 40 /\ args.physicalDefense = 10
    /\ args.accuracy = 95 /\ args.evasion = 100
    /\ result.finalDamage = 8

(***************************************************************************)
(* C2  GlancingBlowCurve.multiplier: 1.0 whenever evasion <= 0; otherwise, *)
(*     with ratio = accuracy / evasion, 0.0 for ratio <= 0.90, 1.0 for     *)
(*     ratio >= 1.10, exactly 0.25 / 0.50 / 0.75 at 0.95 / 1.00 / 1.05,    *)
(*     the linear interpolation between the two adjacent anchors for every *)
(*     other ratio, and always within [0, 1].                              *)
(***************************************************************************)
C2_Segments == << <<90, 95, 0, 25>>, <<95, 100, 25, 50>>,
                  <<100, 105, 50, 75>>, <<105, 110, 75, 100>> >>

C2_Glancing ==
    (pc = "done" /\ op = "glancing") =>
        LET a == args.accuracy
            e == args.evasion
            m == result.mult
        IN  /\ m.d > 0 /\ 0 <= m.n /\ m.n <= m.d
            /\ e <= 0 => m.n = m.d
            /\ (e > 0 /\ 100 * a <= 90 * e) => m.n = 0
            /\ (e > 0 /\ 100 * a >= 110 * e) => m.n = m.d
            /\ (e > 0 /\ 100 * a = 95 * e) => 4 * m.n = m.d
            /\ (e > 0 /\ 100 * a = 100 * e) => 2 * m.n = m.d
            /\ (e > 0 /\ 100 * a = 105 * e) => 4 * m.n = 3 * m.d
            /\ \A k \in 1..Len(C2_Segments) :
                   LET sg == C2_Segments[k]
                   IN  (e > 0 /\ sg[1] * e <= 100 * a /\ 100 * a <= sg[2] * e) =>
                          \* m = (y0 + (100a/e - x0) * (y1 - y0) / (x1 - x0)) / 100
                          m.n * (100 * e * (sg[2] - sg[1])) =
                             m.d * (sg[3] * e * (sg[2] - sg[1])
                                    + (100 * a - sg[1] * e) * (sg[4] - sg[3]))

\* Ratio 0.97 lies strictly between the anchors 0.95 and 1.00: multiplier 0.35.
C2_Witness ==
    /\ pc = "done" /\ op = "glancing"
    /\ args.accuracy = 97 /\ args.evasion = 100
    /\ result.mult = [n |-> 7, d |-> 20]

(***************************************************************************)
(* C3  resolveAbilityCast: baseCostEff = ceil(manaCost * slotManaMult),    *)
(*     spentEff = ceil(manaSpent * slotManaMult), damage = floor((diceRoll *)
(*     + flatBonus + overcastBonus) * slotDamageMult * manaDensityMult)    *)
(*     with Core (1.50, 0.75), Inner (1.00, 1.00), Outer (0.75, 2.00), and *)
(*     manaDeducted = spentEff whatever the caster's current mana is.      *)
(*     Core, dice 12, manaCost 10, manaSpent 10, Mana Density 50, overcast *)
(*     disabled: finalDamage 27, manaDeducted 8.                           *)
(***************************************************************************)
\* <<damage numerator, damage denominator, mana numerator, mana denominator>>
C3_Slot(slot) ==
    CASE slot = "Core"  -> <<150, 100, 75, 100>>
      [] slot = "Inner" -> <<100, 100, 100, 100>>
      [] slot = "Outer" -> <<75, 100, 200, 100>>

C3_AbilityCast ==
    (pc = "done" /\ op = "ability" /\ result.err = "none") =>
        LET ab    == args.ability
            t     == C3_Slot(ab.slot)
            base  == 0 - ((0 - ab.manaCost * t[3]) \div t[4])
            spent == 0 - ((0 - args.manaSpent * t[3]) \div t[4])
            bonus == compute_overcast_bonus(base, spent, ab.overcast).bonus
            sum   == args.diceRoll + ab.flatBonus + bonus
            md    == args.stats.ManaDensity
        IN  /\ result.baseCostEff = base
            /\ result.spentEff = spent
            /\ result.manaDeducted = spent
            /\ result.damage = ScaledFloor(Rat(sum * t[1], t[2]), ScalingCurve(md))
            /\ (0 <= md /\ md <= 100) =>
                   result.damage = (sum * t[1] * (100 + md)) \div (t[2] * 100)
            /\ ( /\ ab.slot = "Core" /\ args.diceRoll = 12 /\ ab.flatBonus = 0
                 /\ ab.manaCost = 10 /\ args.manaSpent = 10 /\ md = 50
                 /\ ~ab.overcast.enabled /\ ~args.roll.given ) =>
                   (result.finalDamage = 27 /\ result.manaDeducted = 8)

\* The worked example, cast by a caster whose pool is empty: 8 mana is still reported.
C3_Witness ==
    /\ pc = "done" /\ op = "ability" /\ result.err = "none"
    /\ args.ability.slot = "Core" /\ args.diceRoll = 12 /\ args.ability.flatBonus = 0
    /\ args.ability.manaCost = 10 /\ args.manaSpent = 10
    /\ args.stats.ManaDensity = 50 /\ ~args.ability.overcast.enabled
    /\ ~args.roll.given /\ args.stats.currentMana = 0
    /\ result.finalDamage = 27 /\ result.manaDeducted = 8

C5_AccuracyStat ==
    IF op = "ability" THEN args.stats.Spellcraft
    ELSE IF args.item.isRanged THEN args.stats.RangedAccuracy
    ELSE args.stats.MeleeAccuracy

C5_GlancingPass ==
    (pc = "done" /\ op \in {"weapon", "ability"} /\ result.err \in {"none", "RangeError"}) =>
        /\ ~(args.roll.given /\ args.evasion.given) =>
               /\ result.err = "none"
               /\ result.hit
               /\ result.finalDamage = result.damage
        /\ (args.roll.given /\ args.evasion.given /\ args.roll.v \in 1..20) =>
               LET eff == RatMul(RatInt(C5_AccuracyStat), roll_multiplier(args.roll.v))
                   g   == glancing_multiplier(eff, args.evasion.v)
               IN  /\ result.err = "none"
                   /\ result.finalDamage = (result.damage * g.n) \div g.d
                   /\ result.hit = (g.n # 0)
                   /\ g.n = 0 => (~result.hit /\ result.finalDamage = 0)
        /\ ( /\ op = "weapon" /\ ~args.item.isRanged /\ result.damage = 40
             /\ args.roll = Given(10) /\ args.evasion = Given(100) ) =>
               /\ args.stats.MeleeAccuracy = 95 => result.finalDamage = 10
               /\ args.stats.MeleeAccuracy = 110 => result.finalDamage = 40

C5_Witness ==
    /\ pc = "done" /\ op = "weapon" /\ result.err = "none"
    /\ ~args.item.isRanged /\ args.stats.MeleeAccuracy = 95
    /\ args.roll = Given(10) /\ args.evasion = Given(100)
    /\ result.damage = 40 /\ result.finalDamage = 10 /\ result.hit

(***************************************************************************)
(* C6  OvercastCalculator.bonus returns 0 whenever overcast is disabled or *)
(*     spentEff <= baseCostEff, and otherwise, for scale >= 0, power > 0,  *)
(*     cap >= 0 over a positive base cost, an integer in [0, cap].         *)
(***************************************************************************)
C6_OvercastRange ==
    (pc = "done" /\ op = "overcast") =>
        LET c == args.config
        IN  /\ (~c.enabled \/ args.spentEff <= args.baseCostEff) =>
                   (result.err = "none" /\ result.bonus = 0)
            /\ ( /\ c.enabled /\ args.spentEff > args.baseCostEff
                 /\ c.power.n > 0 /\ args.baseCostEff > 0 ) =>
                   /\ result.err = "none"
                   /\ result.bonus \in 0..c.cap

\* 4x the base cost at scale 5, power 0.85 would give 9: the cap of 3 binds.
C6_Witness ==
    /\ pc = "done" /\ op = "overcast" /\ result.err = "none"
    /\ args.config = [enabled |-> TRUE, scale |-> 5, power |-> Rat(17, 20), cap |-> 3]
    /\ args.baseCostEff = 2 /\ args.spentEff = 8
    /\ result.bonus = 3

(***************************************************************************)
(* C7  With overcast enabled, scale 5, power 0.85 and a cap that does not  *)
(*     bind, floor(scale * log2(spentEff / baseCostEff)^power) is 0 at 1x, *)
(*     5 at 2x, 9 at 4x, 13 at 8x and 16 at 16x.                           *)
(***************************************************************************)
C7_OvercastTable ==
    ( /\ pc = "done" /\ op = "overcast" /\ args.baseCostEff > 0
      /\ args.config = [enabled |-> TRUE, scale |-> 5, power |-> Rat(17, 20),
                        cap |-> 999] ) =>
        /\ args.spentEff = args.baseCostEff => result.bonus = 0
        /\ args.spentEff = 2 * args.baseCostEff => result.bonus = 5
        /\ args.spentEff = 4 * args.baseCostEff => result.bonus = 9
        /\ args.spentEff = 8 * args.baseCostEff => result.bonus = 13
        /\ args.spentEff = 16 * args.baseCostEff => result.bonus = 16

(***************************************************************************)
(* C8  As claimed: OvercastCalculator.bonus fails with ConfigError         *)
(*     whenever power <= 0 or baseCostEff <= 0, also with overcast         *)
(*     disabled or spentEff <= baseCostEff, so that a cast of an ability   *)
(*     whose manaCost is 0 always yields ConfigError.                      *)
(***************************************************************************)
C8_Original ==
    /\ ( /\ pc = "done" /\ op = "overcast"
         /\ (args.config.power.n <= 0 \/ args.baseCostEff <= 0) ) =>
           result.err = "ConfigError"
    /\ (pc = "done" /\ op = "ability" /\ args.ability.manaCost = 0) =>
           result.err = "ConfigError"

(***************************************************************************)
(* C8  As amended: the bonus is 0, without error, whenever overcast is     *)
(*     disabled or spentEff <= baseCostEff; it fails with ConfigError      *)
(*     exactly when overcast is enabled, spentEff > baseCostEff and        *)
(*     power <= 0 or baseCostEff <= 0.  A cast of an ability whose         *)
(*     manaCost is 0 fails with ConfigError exactly when its overcast is   *)
(*     enabled and mana is spent, and resolves otherwise.                  *)
(***************************************************************************)
C8_ConfigError ==
    /\ (pc = "done" /\ op = "overcast") =>
           ( result.err = "ConfigError" <=>
                 /\ args.config.enabled /\ args.spentEff > args.baseCostEff
                 /\ (args.config.power.n <= 0 \/ args.baseCostEff <= 0) )
    /\ (pc = "done" /\ op = "ability" /\ args.ability.manaCost = 0) =>
           /\ result.baseCostEff = 0
           /\ result.err = "ConfigError" <=>
                  (args.ability.overcast.enabled /\ args.manaSpent > 0)
           /\ result.err # "ConfigError" => result.manaDeducted = result.spentEff

C8_Witness ==
    /\ pc = "done" /\ op = "ability"
    /\ args.ability.manaCost = 0 /\ args.ability.overcast.enabled
    /\ args.manaSpent = 3
    /\ result.err = "ConfigError"

(***************************************************************************)
(* C9  ScalingCurve.multiplier: negative points count as 0 (1.00, never an *)
(*     error); 1 + points/100 for 0 <= points <= 100 (0 -> 1.00,           *)
(*     71 -> 1.71, 100 -> 2.00); 2 + log(points/100)/log(100) above 100    *)
(*     (10000 -> 3.00); non-decreasing over all points >= 0, the boundary  *)
(*     at 100 included.                                                    *)
(***************************************************************************)
C9_Next(p) ==
    {q \in ScalePoints : q > p /\ ~\E q2 \in ScalePoints : p < q2 /\ q2 < q}

C9_ScalingCurve ==
    (pc = "done" /\ op = "scaling") =>
        LET p == args.points
            m == result.mult
        IN  /\ result.err = "none"
            /\ p < 0 => MultCmpRat(m, RatInt(1)) = 0
            /\ (0 <= p /\ p <= 100) => MultCmpRat(m, Rat(100 + p, 100)) = 0
            /\ p = 0 => MultCmpRat(m, RatInt(1)) = 0
            /\ p = 71 => MultCmpRat(m, Rat(171, 100)) = 0
            /\ p = 100 => MultCmpRat(m, RatInt(2)) = 0
            \* above 100 the value is 2 + log(p/100)/log(100): strictly between 2
            \* and 3 below 10000, 2.5 at 1000 and exactly 3 at 10000
            /\ p > 100 => (m.base = RatInt(2) /\ m.logArg = p)
            /\ (100 < p /\ p < 10000) =>
                   (MultCmpRat(m, RatInt(2)) = 1 /\ MultCmpRat(m, RatInt(3)) = 0 - 1)
            /\ p = 1000 => MultCmpRat(m, Rat(5, 2)) = 0
            /\ p = 10000 => MultCmpRat(m, RatInt(3)) = 0
            /\ p > 10000 => MultCmpRat(m, RatInt(3)) = 1
            /\ \A q \in C9_Next(p) : MultLeq(m, ScalingCurve(q))

\* The first point of the logarithmic tail, next to the boundary at 100.
C9_Witness ==
    /\ pc = "done" /\ op = "scaling" /\ args.points = 101
    /\ result.mult = [base |-> RatInt(2), logArg |-> 101]
    /\ MultLeq(ScalingCurve(100), result.mult)
    /\ ~MultLeq(result.mult, ScalingCurve(100))

(***************************************************************************)
(* C10 As claimed: the seven table rows are anchors hit exactly            *)
(*     (15 -> 1.56), every other roll in 1..20 is interpolated between the *)
(*     two adjacent rows, rolls outside 1..20 fail with RangeError, and    *)
(*     Melee Accuracy 40 with roll 15 gives effective accuracy 62.4.       *)
(***************************************************************************)
\* m is the interpolation at x over segments <<x0, x1, y0, y1>>, y in hundredths.
OnSegments(segs, x, m) ==
    \A k \in 1..Len(segs) :
        LET sg == segs[k]
        IN  (sg[1] <= x /\ x <= sg[2]) =>
                m.n * 100 * (sg[2] - sg[1]) =
                    m.d * (sg[3] * (sg[2] - sg[1]) + (x - sg[1]) * (sg[4] - sg[3]))

HPSoftCap == 100

ManaSoftCap == 50

\* n points spent on a pool standing at s = [max, carry], tier by tier:
\* carry counts the points paid towards the next +2 Mana of the slower tier.
Progress(pool, s, n) ==
    IF pool = "HP"
    THEN LET toCap == IF s.max < HPSoftCap
                      THEN (HPSoftCap - s.max + 1) \div 2 ELSE 0
             below == min(n, toCap)
         IN  [max |-> s.max + 2 * below + (n - below), carry |-> 0]
    ELSE LET toCap == max(0, ManaSoftCap - s.max)
             below == min(n, toCap)
             paid  == s.carry + (n - below)
         IN  [max |-> s.max + below + 2 * (paid \div 3), carry |-> paid % 3]

\* Mutant: the points paid towards the next +2 Mana are forgotten between
\* two spends.
pointsToGain_RemainderDropped(pool, currentPoints, pointsSpent) ==
    LET before == Progress(pool, [max |-> 0, carry |-> 0], currentPoints)
        after  == Progress(pool, [before EXCEPT !.carry = 0], pointsSpent)
    IN  after.max - before.max

\* The amount a pool's max gains from pointsSpent more points, on a pool that
\* already took currentPoints points.
pointsToGain(pool, currentPoints, pointsSpent) ==
    LET before == Progress(pool, [max |-> 0, carry |-> 0], currentPoints)
        after  == Progress(pool, before, pointsSpent)
    IN  after.max - before.max

StartPoints == 48

MaxExtra == 5

MaxSpend == 3

\* The defender of the incoming hits: Evasion 100, Physical Defense 10.
PoolHits ==
    [incomingDamage : {40, 150}, accuracy : {80, 110}, evasion : {100},
     physicalDefense : {10}, isPhysical : {TRUE}]

PoolCasts ==
    [ability : [slot : {"Core"}, flatBonus : {0}, manaCost : {20},
                overcast : {[enabled |-> FALSE, scale |-> 0,
                             power |-> Rat(17, 20), cap |-> 999]}],
     stats : [ManaDensity : {50}, Spellcraft : {110}],
     diceRoll : {12}, manaSpent : {20, 80}, roll : {Omitted}, evasion : {Omitted}]

PoolOp(kind, amount) ==
    [kind |-> kind, amount |-> amount, hpBefore |-> hp, manaBefore |-> mana]

PoolInit ==
    /\ hpPoints = StartPoints
    /\ manaPoints = StartPoints
    /\ hp = [current |-> pointsToGain("HP", 0, StartPoints),
             max     |-> pointsToGain("HP", 0, StartPoints)]
    /\ mana = [current |-> pointsToGain("Mana", 0, StartPoints),
               max     |-> pointsToGain("Mana", 0, StartPoints)]
    /\ lastOp = PoolOp("none", 0)
    /\ CalcIdle
    /\ LauncherIdle
    /\ BuildIdle

SpendPointsHP ==
    \E n \in 0..MaxSpend :
        /\ hpPoints + n <= StartPoints + MaxExtra
        /\ hp' = [hp EXCEPT !.max = @ + pointsToGain("HP", hpPoints, n)]
        /\ hpPoints' = hpPoints + n
        /\ lastOp' = PoolOp("spendHP", n)
        /\ UNCHANGED <<mana, manaPoints, outsidePool>>

SpendPointsMana ==
    \E n \in 0..MaxSpend :
        /\ manaPoints + n <= StartPoints + MaxExtra
        /\ mana' = [mana EXCEPT !.max = @ + pointsToGain("Mana", manaPoints, n)]
        /\ manaPoints' = manaPoints + n
        /\ lastOp' = PoolOp("spendMana", n)
        /\ UNCHANGED <<hp, hpPoints, outsidePool>>

\* Mutant: the hit is taken off current HP without the clamp at 0.
TakeHit_Unclamped ==
    \E h \in PoolHits :
        LET res == resolveIncomingHit(h.incomingDamage, RatInt(h.accuracy),
                                      h.evasion, h.physicalDefense, h.isPhysical)
        IN  /\ hp' = [hp EXCEPT !.current = @ - res.finalDamage]
            /\ lastOp' = PoolOp("hit", res.finalDamage)
            /\ UNCHANGED <<mana, hpPoints, manaPoints, outsidePool>>

\* An incoming hit: current HP drops by the resolved final damage and is
\* clamped between 0 and max.
TakeHit ==
    \E h \in PoolHits :
        LET res == resolveIncomingHit(h.incomingDamage, RatInt(h.accuracy),
                                      h.evasion, h.physicalDefense, h.isPhysical)
        IN  /\ hp' = [hp EXCEPT !.current = max(0, @ - res.finalDamage)]
            /\ lastOp' = PoolOp("hit", res.finalDamage)
            /\ UNCHANGED <<mana, hpPoints, manaPoints, outsidePool>>

\* A cast the pool can pay for: current Mana drops by manaDeducted.
CastAbility ==
    \E c \in PoolCasts :
        LET res == resolveAbilityCast(c.ability, c.stats, c.diceRoll,
                                      c.manaSpent, c.roll, c.evasion)
        IN  /\ res.err = "none"
            /\ res.manaDeducted <= mana.current
            /\ mana' = [mana EXCEPT !.current = @ - res.manaDeducted]
            /\ lastOp' = PoolOp("cast", res.manaDeducted)
            /\ UNCHANGED <<hp, hpPoints, manaPoints, outsidePool>>

\* A cast that would overdraw the pool: the caller rejects it.
CastRejected ==
    \E c \in PoolCasts :
        LET res == resolveAbilityCast(c.ability, c.stats, c.diceRoll,
                                      c.manaSpent, c.roll, c.evasion)
        IN  /\ res.err = "none"
            /\ res.manaDeducted > mana.current
            /\ lastOp' = PoolOp("rejected", res.manaDeducted)
            /\ UNCHANGED <<hp, mana, hpPoints, manaPoints, outsidePool>>

\* A long rest: HP and Mana set to max.
LongRest ==
    /\ hp' = [hp EXCEPT !.current = hp.max]
    /\ mana' = [mana EXCEPT !.current = mana.max]
    /\ lastOp' = PoolOp("rest", 0)
    /\ UNCHANGED <<hpPoints, manaPoints, outsidePool>>

PoolNext ==
    \/ SpendPointsHP
    \/ SpendPointsMana
    \/ TakeHit
    \/ CastAbility
    \/ CastRejected
    \/ LongRest

PoolSpec == PoolInit /\ [][PoolNext]_vars

(***************************************************************************)
(* C11 ResourceProgression.pointsToGain: a spend that stays below 100 max  *)
(*     HP gains 2 per point and a spend at or above 100 gains 1 per point; *)
(*     a spend that stays below 50 max Mana gains 1 per point, and at or   *)
(*     above 50 every third point paid, counted over all spends, gains 2.  *)
(*     Splitting a spend in two gains the same in total, the gain is never *)
(*     negative, and each max is the gain of the cumulative points alone.  *)
(***************************************************************************)
C11_Spent(pool, c, n, before, after) ==
    LET g == after.max - before.max
    IN  /\ g = pointsToGain(pool, c, n)
        /\ g >= 0
        /\ \A a \in 0..n :
               g = pointsToGain(pool, c, a) + pointsToGain(pool, c + a, n - a)
        /\ pool = "HP" =>
               /\ (n > 0 /\ before.max + 2 * (n - 1) < HPSoftCap) => g = 2 * n
               /\ before.max >= HPSoftCap => g = n
        /\ pool = "Mana" =>
               /\ before.max + n <= ManaSoftCap => g = n
               /\ before.max >= ManaSoftCap =>
                      g = 2 * ((((c - ManaSoftCap) % 3) + n) \div 3)

C11_Progression ==
    /\ hp.max = pointsToGain("HP", 0, hpPoints)
    /\ mana.max = pointsToGain("Mana", 0, manaPoints)
    /\ lastOp.kind = "spendHP" =>
           C11_Spent("HP", hpPoints - lastOp.amount, lastOp.amount,
                     lastOp.hpBefore, hp)
    /\ lastOp.kind = "spendMana" =>
           C11_Spent("Mana", manaPoints - lastOp.amount, lastOp.amount,
                     lastOp.manaBefore, mana)

\* Two single points paid past 50 max Mana, and the third one brings the +2.
C11_Witness ==
    /\ lastOp.kind = "spendMana" /\ lastOp.amount = 1
    /\ manaPoints = ManaSoftCap + 3
    /\ lastOp.manaBefore.max = ManaSoftCap
    /\ mana.max = ManaSoftCap + 2

(***************************************************************************)
(* C12 Resource pools: 0 <= current <= max holds for HP and Mana in every  *)
(*     reachable state; a hit leaves current HP at max(0, before - final   *)
(*     damage), a cast leaves current Mana at before - manaDeducted, a     *)
(*     cast that costs more than current Mana changes nothing, and a long  *)
(*     rest leaves both currents at max.                                   *)
(***************************************************************************)
C12_PoolInvariant ==
    /\ 0 <= hp.current /\ hp.current <= hp.max
    /\ 0 <= mana.current /\ mana.current <= mana.max
    /\ lastOp.kind = "hit" =>
           /\ hp.current = max(0, lastOp.hpBefore.current - lastOp.amount)
           /\ mana = lastOp.manaBefore
    /\ lastOp.kind = "cast" =>
           /\ lastOp.amount <= lastOp.manaBefore.current
           /\ mana.current = lastOp.manaBefore.current - lastOp.amount
           /\ hp = lastOp.hpBefore
    /\ lastOp.kind = "rejected" =>
           /\ lastOp.amount > lastOp.manaBefore.current
           /\ mana = lastOp.manaBefore /\ hp = lastOp.hpBefore
    /\ lastOp.kind = "rest" =>
           /\ hp.current = hp.max /\ mana.current = mana.max

\* A hit larger than what is left takes current HP to 0, not below.
C12_Witness ==
    /\ lastOp.kind = "hit"
    /\ 0 < lastOp.hpBefore.current
    /\ lastOp.hpBefore.current < lastOp.amount
    /\ hp.current = 0

(***************************************************************************)
(* What \d+d\d+([+-]\d+)? says of a text, stated position by position.     *)
(***************************************************************************)
AllDigits(t, a, b) == a <= b /\ \A k \in a..b : IsDigit(t[k])

AllZeros(t, a, b) == a <= b /\ \A k \in a..b : t[k] = "0"

\* The text between its first and its last character that is no whitespace.
Stripped(t) ==
    LET inked == {k \in 1..Len(t) : ~IsSpace(t[k])}
    IN  IF inked = {} THEN <<>>
        ELSE SubSeq(t, CHOOSE a \in inked : \A k \in inked : a <= k,
                       CHOOSE b \in inked : \A k \in inked : k <= b)

\* t reads count "d" sides, with the sides ending at position e.
DiceUpTo(t, i, e) ==
    /\ t[i] = "d" /\ AllDigits(t, 1, i - 1) /\ AllDigits(t, i + 1, e)
    /\ \/ e = Len(t)
       \/ /\ e + 1 < Len(t)
          /\ t[e + 1] \in {"+", "-"}
          /\ AllDigits(t, e + 2, Len(t))

MatchesDice(t) == \E i \in 1..Len(t) : \E e \in i..Len(t) : DiceUpTo(t, i, e)

ZeroCountOrSides(t) ==
    \E i \in 1..Len(t) : \E e \in i..Len(t) :
        DiceUpTo(t, i, e) /\ (AllZeros(t, 1, i - 1) \/ AllZeros(t, i + 1, e))

DiceExpr(count, sides, flatBonus) ==
    [err |-> "none", count |-> count, sides |-> sides, flatBonus |-> flatBonus]

\* "1d10", "2d6+3" and "3d8-2" are accepted, surrounding whitespace or not.
ExamplesAccepted ==
    LET t == Stripped(args.text)
    IN  /\ t = <<"1", "d", "1", "0">> => result = DiceExpr(1, 10, 0)
        /\ t = <<"2", "d", "6", "+", "3">> => result = DiceExpr(2, 6, 3)
        /\ t = <<"3", "d", "8", "-", "2">> => result = DiceExpr(3, 8, 0 - 2)

C14_RoundTrip ==
    (pc = "done" /\ op = "format") =>
        parse(result.text) =
            DiceExpr(args.expr.count, args.expr.sides, args.expr.flatBonus)

\* 12 dice of 20 sides minus 12 is written "12d20-12".
C14_Witness ==
    /\ pc = "done" /\ op = "format"
    /\ args.expr = [count |-> 12, sides |-> 20, flatBonus |-> 0 - 12]
    /\ result.text = <<"1", "2", "d", "2", "0", "-", "1", "2">>

(***************************************************************************)
(* The launcher SheetTool.pyw (src/unnamed/part_000:212-235), statement by *)
(* statement.  The dialogs and the application of sheet_tool are taken to  *)
(* return; what they return is free.                                       *)
(***************************************************************************)
MaxFiles == 2

\* What pick_character_file returns: None, an empty string, or a file path.
NoPath == [str |-> FALSE, file |-> 0]

EmptyPath == [str |-> TRUE, file |-> 0]

FilePath(k) == [str |-> TRUE, file |-> k]

PickResults == {NoPath, EmptyPath} \cup {FilePath(k) : k \in 1..MaxFiles}

\* Python's truth value of a path: None and "" are false.
Truthy(p) == p.str /\ p.file # 0

NoApp == [built |-> FALSE, paths |-> <<>>, is_dm |-> FALSE]

CharacterApp(initial_paths, dm) ==
    [built |-> TRUE, paths |-> initial_paths, is_dm |-> dm]

LauncherInit ==
    /\ lpc = "stdout"
    /\ stdout \in {"none", "console"}
    /\ stderr \in {"none", "console"}
    /\ is_dm = FALSE
    /\ path = NoPath
    /\ app = NoApp
    /\ calls = <<>>
    /\ exitStatus = 0 - 1
    /\ CalcIdle
    /\ PoolIdle
    /\ BuildIdle

\* if sys.stdout is None: sys.stdout = open(os.devnull, 'w')
EnsureStdout ==
    /\ lpc = "stdout"
    /\ stdout' = IF stdout = "none" THEN "devnull" ELSE stdout
    /\ lpc' = "stderr"
    /\ UNCHANGED <<stderr, is_dm, path, app, calls, exitStatus, outsideLauncher>>

\* if sys.stderr is None: sys.stderr = open(os.devnull, 'w')
EnsureStderr ==
    /\ lpc = "stderr"
    /\ stderr' = IF stderr = "none" THEN "devnull" ELSE stderr
    /\ lpc' = "login"
    /\ UNCHANGED <<stdout, is_dm, path, app, calls, exitStatus, outsideLauncher>>

\* is_dm = dm_login_dialog()
DmLogin ==
    /\ lpc = "login"
    /\ is_dm' \in BOOLEAN
    /\ calls' = Append(calls, "dm_login_dialog")
    /\ lpc' = "pick"
    /\ UNCHANGED <<stdout, stderr, path, app, exitStatus, outsideLauncher>>

\* path = pick_character_file()
PickFile ==
    /\ lpc = "pick"
    /\ path' \in PickResults
    /\ calls' = Append(calls, "pick_character_file")
    /\ lpc' = "branch"
    /\ UNCHANGED <<stdout, stderr, is_dm, app, exitStatus, outsideLauncher>>

\* if is_dm: app = CharacterApp([path] if path else [], is_dm=True)
LaunchDm ==
    /\ lpc = "branch" /\ is_dm
    /\ app' = CharacterApp(IF Truthy(path) THEN <<path>> ELSE <<>>, TRUE)
    /\ calls' = Append(calls, "CharacterApp")
    /\ lpc' = "mainloop"
    /\ UNCHANGED <<stdout, stderr, is_dm, path, exitStatus, outsideLauncher>>

\* Mutant: the player without a file gets an application with no file.
ExitNoFile_OpensEmpty ==
    /\ lpc = "branch" /\ ~is_dm /\ ~Truthy(path)
    /\ app' = CharacterApp(<<>>, FALSE)
    /\ calls' = Append(calls, "CharacterApp")
    /\ lpc' = "mainloop"
    /\ UNCHANGED <<stdout, stderr, is_dm, path, exitStatus, outsideLauncher>>

\* else: if not path: sys.exit(0)
ExitNoFile ==
    /\ lpc = "branch" /\ ~is_dm /\ ~Truthy(path)
    /\ exitStatus' = 0
    /\ calls' = Append(calls, "sys.exit")
    /\ lpc' = "exited"
    /\ UNCHANGED <<stdout, stderr, is_dm, path, app, outsideLauncher>>

\* else: app = CharacterApp([path], is_dm=False)
LaunchPlayer ==
    /\ lpc = "branch" /\ ~is_dm /\ Truthy(path)
    /\ app' = CharacterApp(<<path>>, FALSE)
    /\ calls' = Append(calls, "CharacterApp")
    /\ lpc' = "mainloop"
    /\ UNCHANGED <<stdout, stderr, is_dm, path, exitStatus, outsideLauncher>>

\* app.mainloop() is entered ...
EnterMainloop ==
    /\ lpc = "mainloop"
    /\ calls' = Append(calls, "mainloop")
    /\ lpc' = "running"
    /\ UNCHANGED <<stdout, stderr, is_dm, path, app, exitStatus, outsideLauncher>>

\* ... and returns when the window is closed: the script ends.
LeaveMainloop ==
    /\ lpc = "running"
    /\ exitStatus' = 0
    /\ lpc' = "exited"
    /\ UNCHANGED <<stdout, stderr, is_dm, path, app, calls, outsideLauncher>>

LauncherNext ==
    \/ EnsureStdout
    \/ EnsureStderr
    \/ DmLogin
    \/ PickFile
    \/ LaunchDm
    \/ ExitNoFile
    \/ LaunchPlayer
    \/ EnterMainloop
    \/ LeaveMainloop

LauncherSpec == LauncherInit /\ [][LauncherNext]_vars

(***************************************************************************)
(* C15 Launcher flow: the file picker is called at most once and only      *)
(*     after the login dialog returned, and exactly once by the time the   *)
(*     launcher branches.  A player (not DM) who picked no file leaves     *)
(*     with exit status 0 and no CharacterApp is ever built; a player who  *)
(*     picked a file gets CharacterApp([path], is_dm = False); a DM gets   *)
(*     CharacterApp with is_dm = True, on [path] or on [] when no file was *)
(*     picked.  mainloop is called only after CharacterApp was built.      *)
(***************************************************************************)
Count(name) == Cardinality({i \in 1..Len(calls) : calls[i] = name})

Before(first, then) ==
    \A i \in 1..Len(calls) :
        calls[i] = then => \E j \in 1..(i - 1) : calls[j] = first

PastBranch == lpc \in {"mainloop", "running", "exited"}

C15_LauncherFlow ==
    /\ Before("dm_login_dialog", "pick_character_file")
    /\ Count("pick_character_file") <= 1
    /\ Count("dm_login_dialog") <= 1
    /\ lpc \in {"branch", "mainloop", "running", "exited"} =>
           Count("pick_character_file") = 1
    /\ (PastBranch /\ ~is_dm /\ ~Truthy(path)) =>
           /\ lpc = "exited" /\ exitStatus = 0
           /\ app = NoApp
           /\ Count("CharacterApp") = 0 /\ Count("mainloop") = 0
    /\ (PastBranch /\ ~is_dm /\ Truthy(path)) =>
           app = CharacterApp(<<path>>, FALSE)
    /\ (PastBranch /\ is_dm) =>
           /\ app.built /\ app.is_dm
           /\ app.paths = IF Truthy(path) THEN <<path>> ELSE <<>>
    /\ Before("CharacterApp", "mainloop")
    /\ Count("mainloop") >= 1 => app.built
    /\ Count("CharacterApp") <= 1

\* A player cancelled the picker: the process left with status 0, no app.
C15_Witness ==
    /\ lpc = "exited" /\ ~is_dm /\ path = EmptyPath
    /\ exitStatus = 0 /\ app = NoApp
    /\ calls = <<"dm_login_dialog", "pick_character_file", "sys.exit">>

(***************************************************************************)
(* BuildExe.pyw: the Tk main thread runs start_build on a click of the     *)
(* enabled Build button; each build() thread runs PyInstaller, streams its *)
(* output into the log, copies dist/SheetTool.exe over SheetTool.exe and   *)
(* re-enables the button.  A thread is followed statement by statement; a  *)
(* call into the operating system (Popen, reading the pipe, copy2) either  *)
(* returns or raises.  The window stays open.                              *)
(***************************************************************************)
MaxBuilds == 2

MaxLines == 1

MaxExitCode == 2

BuildIds == 1..MaxBuilds

ExitCodes == 0..MaxExitCode

Status(kind, code) == [kind |-> kind, code |-> code]

Ready == Status("Ready", 0)

Building == Status("Building...", 0)

\* dist/SheetTool.exe: absent, left by an earlier run, or written by the
\* PyInstaller process of build k.
AbsentDist == [exists |-> FALSE, by |-> 0]

StaleDist == [exists |-> TRUE, by |-> 0]

BuiltBy(k) == [exists |-> TRUE, by |-> k]

\* SheetTool.exe in the project root: as found, a copy of a dist exe, or
\* what a copy that raised half-way left of it.
OriginalExe == [state |-> "original", of |-> AbsentDist]

NoThread ==
    [pc |-> "idle", lines |-> 0, exc |-> "none", outcome |-> "none",
     rootAtStart |-> OriginalExe, rootAtEnd |-> OriginalExe,
     endBtn |-> "none", endStatus |-> Ready]

NoProc == [state |-> "none", code |-> 0]

BuildInit ==
    /\ btn = "normal"
    /\ status = Status("Ready", 0)
    /\ log = <<>>
    /\ builds = [t \in BuildIds |-> NoThread]
    /\ procs = [t \in BuildIds |-> NoProc]
    /\ rootExe = OriginalExe
    /\ distExe \in {AbsentDist, StaleDist}
    /\ started = 0
    /\ CalcIdle
    /\ PoolIdle
    /\ LauncherIdle

\* A click on the Build button, which Tk delivers only while the button is
\* enabled: disable it, clear the log, start a build() thread.
start_build ==
    /\ btn = "normal"
    /\ started < MaxBuilds
    /\ btn' = "disabled"
    /\ log' = <<>>
    /\ started' = started + 1
    /\ builds' = [builds EXCEPT ![started + 1] =
                      [NoThread EXCEPT !.pc = "begin", !.rootAtStart = rootExe]]
    /\ UNCHANGED <<status, procs, rootExe, distExe, outsideBuild>>

\* status_var.set("Building...")
SetBuilding(t) ==
    /\ builds[t].pc = "begin"
    /\ status' = Building
    /\ builds' = [builds EXCEPT ![t].pc = "popen"]
    /\ UNCHANGED <<btn, log, procs, rootExe, distExe, started, outsideBuild>>

\* proc = subprocess.Popen([sys.executable, "-m", "PyInstaller", SPEC_FILE], ...)
Popen(t) ==
    /\ builds[t].pc = "popen"
    /\ procs' = [procs EXCEPT ![t] = [state |-> "running", code |-> 0]]
    /\ builds' = [builds EXCEPT ![t].pc = "read"]
    /\ UNCHANGED <<btn, status, log, rootExe, distExe, started, outsideBuild>>

\* Popen raises: FileNotFoundError when the executable is not found, or
\* another exception.
PopenRaises(t) ==
    /\ builds[t].pc = "popen"
    /\ \E e \in {"FileNotFoundError", "Exception"} :
           builds' = [builds EXCEPT ![t].pc = "except", ![t].exc = e]
    /\ UNCHANGED <<btn, status, log, procs, rootExe, distExe, started, outsideBuild>>

\* for line in proc.stdout: text_widget.insert(tk.END, line)
ReadLine(t) ==
    /\ builds[t].pc = "read"
    /\ procs[t].state = "running"
    /\ builds[t].lines < MaxLines
    /\ log' = Append(log, "line")
    /\ builds' = [builds EXCEPT ![t].lines = @ + 1]
    /\ UNCHANGED <<btn, status, procs, rootExe, distExe, started, outsideBuild>>

\* The loop ends when the process has closed its output; proc.wait().
ReadEnd(t) ==
    /\ builds[t].pc = "read"
    /\ procs[t].state = "exited"
    /\ builds' = [builds EXCEPT ![t].pc = "returncode"]
    /\ UNCHANGED <<btn, status, log, procs, rootExe, distExe, started, outsideBuild>>

\* Reading or decoding a line raises: the process is not waited for.
ReadRaises(t) ==
    /\ builds[t].pc = "read"
    /\ builds' = [builds EXCEPT ![t].pc = "except", ![t].exc = "Exception"]
    /\ UNCHANGED <<btn, status, log, procs, rootExe, distExe, started, outsideBuild>>

\* if proc.returncode != 0: status_var.set("Build FAILED (exit code N)")
BuildFailed(t) ==
    /\ builds[t].pc = "returncode"
    /\ procs[t].code # 0
    /\ status' = Status("Build FAILED", procs[t].code)
    /\ builds' = [builds EXCEPT ![t].pc = "enable", ![t].outcome = "failed"]
    /\ UNCHANGED <<btn, log, procs, rootExe, distExe, started, outsideBuild>>

\* returncode is 0: if os.path.isfile(DIST_EXE)
CheckDist(t) ==
    /\ builds[t].pc = "returncode"
    /\ procs[t].code = 0
    /\ builds' = [builds EXCEPT ![t].pc = IF distExe.exists THEN "copy"
                                           ELSE "complete"]
    /\ UNCHANGED <<btn, status, log, procs, rootExe, distExe, started, outsideBuild>>

\* shutil.copy2(DIST_EXE, ROOT_EXE); text_widget.insert("Copied exe to ...")
CopyExe(t) ==
    /\ builds[t].pc = "copy"
    /\ rootExe' = [state |-> "copied", of |-> distExe]
    /\ log' = Append(log, "copied")
    /\ builds' = [builds EXCEPT ![t].pc = "complete"]
    /\ UNCHANGED <<btn, status, procs, distExe, started, outsideBuild>>

\* shutil.copy2 raises, before it opened the root exe for writing (the file
\* is in use) or after it began to write it (the disk is full, the file's
\* times cannot be set).
CopyRaises(t) ==
    /\ builds[t].pc = "copy"
    /\ builds' = [builds EXCEPT ![t].pc = "except", ![t].exc = "Exception"]
    /\ rootExe' \in {rootExe, [state |-> "partial", of |-> distExe]}
    /\ UNCHANGED <<btn, status, log, procs, distExe, started, outsideBuild>>

\* status_var.set("Build complete!")
BuildComplete(t) ==
    /\ builds[t].pc = "complete"
    /\ status' = Status("Build complete!", 0)
    /\ builds' = [builds EXCEPT ![t].pc = "enable", ![t].outcome = "complete"]
    /\ UNCHANGED <<btn, log, procs, rootExe, distExe, started, outsideBuild>>

\* except FileNotFoundError: status_var.set("ERROR: PyInstaller not found")
HandleNotFound(t) ==
    /\ builds[t].pc = "except"
    /\ builds[t].exc = "FileNotFoundError"
    /\ status' = Status("ERROR: PyInstaller not found", 0)
    /\ log' = Append(log, "not installed")
    /\ builds' = [builds EXCEPT ![t].pc = "enable", ![t].outcome = "notfound"]
    /\ UNCHANGED <<btn, procs, rootExe, distExe, started, outsideBuild>>

\* except Exception as e: status_var.set(f"ERROR: {e}")
HandleException(t) ==
    /\ builds[t].pc = "except"
    /\ builds[t].exc = "Exception"
    /\ status' = Status("ERROR: <message>", 0)
    /\ log' = Append(log, "message")
    /\ builds' = [builds EXCEPT ![t].pc = "enable", ![t].outcome = "error"]
    /\ UNCHANGED <<btn, procs, rootExe, distExe, started, outsideBuild>>

\* Mutant: a build that failed returns without re-enabling the button.
EnableButton_NotAfterFailure(t) ==
    /\ builds[t].pc = "enable"
    /\ btn' = IF builds[t].outcome = "failed" THEN btn ELSE "normal"
    /\ builds' = [builds EXCEPT ![t].pc = "done",
                                ![t].rootAtEnd = rootExe,
                                ![t].endBtn = btn',
                                ![t].endStatus = status]
    /\ UNCHANGED <<status, log, procs, rootExe, distExe, started, outsideBuild>>

\* btn.configure(state="normal"), the last statement of build() on every
\* path (lines 39 and 60).
EnableButton(t) ==
    /\ builds[t].pc = "enable"
    /\ btn' = "normal"
    /\ builds' = [builds EXCEPT ![t].pc = "done",
                                ![t].rootAtEnd = rootExe,
                                ![t].endBtn = btn',
                                ![t].endStatus = status]
    /\ UNCHANGED <<status, log, procs, rootExe, distExe, started, outsideBuild>>

\* The PyInstaller process of build t ends with some exit code; one that
\* ends with 0 may have written dist/SheetTool.exe.
ProcExit(t) ==
    /\ procs[t].state = "running"
    /\ \E code \in ExitCodes :
           /\ procs' = [procs EXCEPT ![t] = [state |-> "exited", code |-> code]]
           /\ distExe' \in IF code = 0 THEN {distExe, BuiltBy(t)} ELSE {distExe}
    /\ UNCHANGED <<btn, status, log, builds, rootExe, started, outsideBuild>>

\* A step of the build() thread t.
build(t) ==
    \/ SetBuilding(t)
    \/ Popen(t)
    \/ PopenRaises(t)
    \/ ReadLine(t)
    \/ ReadEnd(t)
    \/ ReadRaises(t)
    \/ BuildFailed(t)
    \/ CheckDist(t)
    \/ CopyExe(t)
    \/ CopyRaises(t)
    \/ BuildComplete(t)
    \/ HandleNotFound(t)
    \/ HandleException(t)
    \/ EnableButton(t)

BuildNext ==
    \/ start_build
    \/ \E t \in BuildIds : build(t)
    \/ \E t \in BuildIds : ProcExit(t)

BuildSpec == BuildInit /\ [][BuildNext]_vars

\* A started thread keeps running, and a started process ends.
BuildFairSpec ==
    /\ BuildSpec
    /\ \A t \in BuildIds : WF_vars(build(t))
    /\ \A t \in BuildIds : WF_vars(ProcExit(t))

RunningThreads == {t \in BuildIds : builds[t].pc \notin {"idle", "done"}}

RunningProcs == {t \in BuildIds : procs[t].state = "running"}

(***************************************************************************)
(* C16 As claimed: at most one build() thread runs at any time, and so at  *)
(*     most one PyInstaller process, whatever the clicks and the progress  *)
(*     of the builds.                                                      *)
(***************************************************************************)
AtMostOneThread == Cardinality(RunningThreads) <= 1

AtMostOneProcess == Cardinality(RunningProcs) <= 1

C16_OneBuild == AtMostOneThread /\ AtMostOneProcess

(***************************************************************************)
(* C17 Every build that was started eventually ends with the Build button  *)
(*     enabled and the status at the terminal value of its outcome: "Build *)
(*     FAILED (exit code N)" when PyInstaller ended with N # 0, "Build     *)
(*     complete!" when it ended with 0 and nothing raised, "ERROR:         *)
(*     PyInstaller not found" on FileNotFoundError, "ERROR: <message>" on  *)
(*     any other exception; never "Building...".                           *)
(***************************************************************************)
ExpectedStatus(t) ==
    IF builds[t].exc = "FileNotFoundError"
    THEN Status("ERROR: PyInstaller not found", 0)
    ELSE IF builds[t].exc = "Exception" THEN Status("ERROR: <message>", 0)
    ELSE IF procs[t].code # 0 THEN Status("Build FAILED", procs[t].code)
    ELSE Status("Build complete!", 0)

Finished(t) ==
    /\ builds[t].pc = "done"
    /\ builds[t].endBtn = "normal"
    /\ builds[t].endStatus = ExpectedStatus(t)
    /\ builds[t].endStatus # Building

C17_BuildEnds == \A t \in BuildIds : (builds[t].pc = "begin") ~> Finished(t)

\* A second build whose PyInstaller ended with exit code 2 has finished.
C17_Witness ==
    /\ Finished(2)
    /\ builds[2].outcome = "failed"
    /\ status = Status("Build FAILED", 2)
    /\ btn = "normal"

(***************************************************************************)
(* C18 As claimed: the root exe is overwritten only after the PyInstaller  *)
(*     process of the build ended with exit code 0 and dist/SheetTool.exe  *)
(*     exists; a build whose process ended with a non-zero code, or that   *)
(*     an exception ended, leaves the root exe as it found it and never    *)
(*     shows "Build complete!".                                            *)
(***************************************************************************)
RootSeenBy(t) == IF builds[t].pc = "done" THEN builds[t].rootAtEnd ELSE rootExe

OverwrittenOnlyAfterSuccess ==
    \A t \in BuildIds :
        (builds[t].pc # "idle" /\ RootSeenBy(t) # builds[t].rootAtStart) =>
            /\ procs[t].state = "exited" /\ procs[t].code = 0
            /\ RootSeenBy(t).of.exists

FailedBuildLeavesRoot ==
    \A t \in BuildIds :
        (builds[t].outcome \in {"failed", "notfound", "error"}) =>
            /\ RootSeenBy(t) = builds[t].rootAtStart
            /\ builds[t].pc \in {"enable", "done"} =>
                   status.kind # "Build complete!"
            /\ builds[t].pc = "done" =>
                   builds[t].endStatus.kind # "Build complete!"

C18_RootExe == OverwrittenOnlyAfterSuccess /\ FailedBuildLeavesRoot

====
